---- MODULE Spec2Model ----
(***************************************************************************)
(* Modified Preorder Tree Traversal indexing of django-vgdb (mptt.py), as  *)
(* applied to the Genre model: the table of Genre rows with the columns    *)
(* parent, tree_id, level, lft, rght, the pre-save and pre-delete signal   *)
(* receivers that maintain them, and the read queries built on them.       *)
(***************************************************************************)
EXTENDS Integers, Sequences, FiniteSets, TLC

\* Number of rows ever inserted into the table (primary keys 1..MaxPk).
MaxPk == 5

\* Number of clients whose operations may overlap in time.
NumClients == 2

\* Number of saves of already-persisted nodes.
MaxResaves == 1

\* Number of storage errors.
MaxFailures == 1

VARIABLES
    rows,     \* the Genre table: primary key -> row
    nextPk,   \* the table's auto-increment primary key sequence
    pc,       \* per client: the statement its operation executes next
    req,      \* per client: its operation and the instance it works on
    base,     \* the table when the operations now overlapping began
    mem,      \* the model instances the application holds: primary key ->
              \* instance as loaded or created
    resaves,  \* number of saves of already-persisted nodes so far
    failures  \* number of storage errors so far

vars == <<rows, nextPk, pc, req, base, mem, resaves, failures>>

\* parent = NULL (the ForeignKey is null=True); also "not instance.pk".
None == 0

\* The parent attribute of an instance created without a parent.
NoParent == [pk |-> None]

Max(S) == CHOOSE x \in S : \A y \in S : y <= x

(***************************************************************************)
(* Storage: rows and in-memory model instances.                            *)
(***************************************************************************)

\* A model instance loaded from the table: the row and its primary key.
Fetch(tbl, k) ==
    [pk |-> k, parent |-> tbl[k].parent, tree_id |-> tbl[k].tree_id,
     level |-> tbl[k].level, lft |-> tbl[k].lft, rght |-> tbl[k].rght]

\* INSERT of an instance's fields under a new primary key.
InsertRow(tbl, k, inst) ==
    [j \in DOMAIN tbl \cup {k} |->
        IF j = k
        THEN [parent |-> inst.parent, tree_id |-> inst.tree_id,
              level |-> inst.level, lft |-> inst.lft, rght |-> inst.rght]
        ELSE tbl[j]]

\* DELETE of one row.
DeleteRow(tbl, k) == [j \in DOMAIN tbl \ {k} |-> tbl[j]]

(***************************************************************************)
(* mptt.py                                                                 *)
(***************************************************************************)

\* SELECT MAX(tree_id): NULL (None) on an empty table.
SelectMaxTreeId(tbl) ==
    IF DOMAIN tbl = {} THEN None ELSE Max({tbl[k].tree_id : k \in DOMAIN tbl})

\* Mutant of get_next_tree_id: the increment is forgotten (row[0] or 1).
get_next_tree_id_no_increment(tbl) ==
    IF DOMAIN tbl = {} THEN 1 ELSE Max({tbl[k].tree_id : k \in DOMAIN tbl})

\* row[0] and (row[0] + 1) or 1
get_next_tree_id(tbl) ==
    LET row0 == SelectMaxTreeId(tbl)
    IN  IF row0 # None /\ row0 + 1 # 0 THEN row0 + 1 ELSE 1

\* Mutant of pre_save_update: the gap opened is 1 wide.
pre_save_update_by_one(tbl, col, target_right, tree_id) ==
    [k \in DOMAIN tbl |->
        IF tbl[k][col] > target_right /\ tbl[k].tree_id = tree_id
        THEN [tbl[k] EXCEPT ![col] = @ + 1]
        ELSE tbl[k]]

\* UPDATE t SET col = col + 2 WHERE col > target_right AND tree_id = tree_id
pre_save_update(tbl, col, target_right, tree_id) ==
    [k \in DOMAIN tbl |->
        IF tbl[k][col] > target_right /\ tbl[k].tree_id = tree_id
        THEN [tbl[k] EXCEPT ![col] = @ + 2]
        ELSE tbl[k]]

\* Mutant of target_right_of: the - 1 is forgotten.
target_right_of_no_minus(parent) == parent.rght

\* target_right = getattr(parent, right_attr) - 1
target_right_of(parent) == parent.rght - 1

\* Mutant of child_fields: lft and rght are one too small.
child_fields_off_by_one(parent) ==
    [parent  |-> parent.pk,
     lft     |-> parent.rght - 1,
     rght    |-> parent.rght,
     tree_id |-> parent.tree_id,
     level   |-> parent.level + 1]

\* The fields _pre_save sets on a new child of the instance `parent`.
child_fields(parent) ==
    [parent  |-> parent.pk,
     lft     |-> target_right_of(parent) + 1,
     rght    |-> target_right_of(parent) + 2,
     tree_id |-> parent.tree_id,
     level   |-> parent.level + 1]

\* The fields _pre_save sets on a new root node.
root_fields(tbl) ==
    [parent  |-> None,
     lft     |-> 1,
     rght    |-> 2,
     tree_id |-> get_next_tree_id(tbl),
     level   |-> 0]

\* Mutant of pre_save: the UPDATE of the lft column is forgotten.
pre_save_no_lft_update(tbl, parent) ==
    IF parent.pk # None
    THEN [tbl |-> [k \in DOMAIN tbl |->
                    IF tbl[k].rght > parent.rght - 1
                       /\ tbl[k].tree_id = parent.tree_id
                    THEN [tbl[k] EXCEPT !.rght = @ + 2]
                    ELSE tbl[k]],
          instance |-> [parent |-> parent.pk, lft |-> parent.rght,
                        rght |-> parent.rght + 1,
                        tree_id |-> parent.tree_id,
                        level |-> parent.level + 1]]
    ELSE [tbl |-> tbl,
          instance |-> [parent |-> None, lft |-> 1, rght |-> 2,
                        tree_id |-> IF DOMAIN tbl = {} THEN 1
                                    ELSE 1 + Max({tbl[k].tree_id :
                                                    k \in DOMAIN tbl}),
                        level |-> 0]]

\* _pre_save for an instance without a primary key, given its parent
\* attribute (None or a model instance): the table after the two UPDATEs
\* and the instance's fields.
pre_save(tbl, parent) ==
    IF parent.pk # None
    THEN LET t1 == pre_save_update(tbl, "rght", target_right_of(parent),
                                   parent.tree_id)
             t2 == pre_save_update(t1, "lft", target_right_of(parent),
                                   parent.tree_id)
         IN  [tbl |-> t2, instance |-> child_fields(parent)]
    ELSE [tbl |-> tbl, instance |-> root_fields(tbl)]

\* The tree fields and parent key an instance carries.
FieldsOf(instance) ==
    [parent |-> instance.parent, tree_id |-> instance.tree_id,
     level |-> instance.level, lft |-> instance.lft, rght |-> instance.rght]

\* Mutant of pre_save_receiver: the "if not instance.pk" test is forgotten.
pre_save_receiver_no_pk_test(tbl, instance, parent) == pre_save(tbl, parent)

\* _pre_save as connected to the pre_save signal, for any instance with its
\* parent attribute: it acts only "if not instance.pk".
pre_save_receiver(tbl, instance, parent) ==
    IF instance.pk = None
    THEN pre_save(tbl, parent)
    ELSE [tbl |-> tbl, instance |-> FieldsOf(instance)]

\* Mutant of pre_delete_update: the tree_id condition is forgotten.
pre_delete_update_all_trees(tbl, col, span, right, tree_id) ==
    [k \in DOMAIN tbl |->
        IF tbl[k][col] > right
        THEN [tbl[k] EXCEPT ![col] = @ - span]
        ELSE tbl[k]]

\* UPDATE t SET col = col - span WHERE col > right AND tree_id = tree_id
pre_delete_update(tbl, col, span, right, tree_id) ==
    [k \in DOMAIN tbl |->
        IF tbl[k][col] > right /\ tbl[k].tree_id = tree_id
        THEN [tbl[k] EXCEPT ![col] = @ - span]
        ELSE tbl[k]]

\* Mutant of span_of: the + 1 is forgotten.
span_of_no_plus_one(instance) == instance.rght - instance.lft

\* Mutant of span_of: the width of a node without descendants, whatever
\* the instance.
span_of_leaf_width(instance) == 2

\* span = right - left + 1
span_of(instance) == instance.rght - instance.lft + 1

\* Mutant of pre_delete: the UPDATE of the lft column is forgotten.
pre_delete_no_lft_update(tbl, instance) ==
    [k \in DOMAIN tbl |->
        IF tbl[k].rght > instance.rght /\ tbl[k].tree_id = instance.tree_id
        THEN [tbl[k] EXCEPT !.rght = @ - (instance.rght - instance.lft + 1)]
        ELSE tbl[k]]

\* _pre_delete: the table after the two UPDATEs.
pre_delete(tbl, instance) ==
    LET t1 == pre_delete_update(tbl, "rght", span_of(instance),
                                instance.rght, instance.tree_id)
    IN  pre_delete_update(t1, "lft", span_of(instance),
                          instance.rght, instance.tree_id)

\* _get_ancestors: the primary keys of the rows the query returns.
get_ancestors(tbl, instance) ==
    IF instance.parent = None
    THEN {}
    ELSE {k \in DOMAIN tbl :
            /\ tbl[k].lft < instance.lft
            /\ tbl[k].rght > instance.rght
            /\ tbl[k].tree_id = instance.tree_id}

\* _get_descendants: the primary keys of the rows the query returns.
get_descendants(tbl, instance, include_self) ==
    {k \in DOMAIN tbl :
        /\ tbl[k].tree_id = instance.tree_id
        /\ IF include_self
           THEN tbl[k].lft >= instance.lft /\ tbl[k].lft <= instance.rght
           ELSE tbl[k].lft > instance.lft /\ tbl[k].lft < instance.rght}

\* Mutant of get_descendant_count: the parentheses are forgotten, so the
\* division binds to the 1 alone.
get_descendant_count_precedence(instance) ==
    instance.rght - instance.lft - (1 \div 2)

\* _get_descendant_count: integer division, as Python 2's / on ints.
get_descendant_count(instance) ==
    (instance.rght - instance.lft - 1) \div 2

\* Mutant of OrderedBefore: ORDER BY tree_id, rght.
OrderedBefore_by_rght(tbl, j, k) ==
    \/ tbl[j].tree_id < tbl[k].tree_id
    \/ tbl[j].tree_id = tbl[k].tree_id /\ tbl[j].rght <= tbl[k].rght

\* ORDER BY tree_id, lft: row j may precede row k in the result.
OrderedBefore(tbl, j, k) ==
    \/ tbl[j].tree_id < tbl[k].tree_id
    \/ tbl[j].tree_id = tbl[k].tree_id /\ tbl[j].lft <= tbl[k].lft

\* TreeManager.get_query_set: every sequence of primary keys the ORDER BY
\* allows (rows with equal keys come in any order).
RECURSIVE OrderedListings(_, _)
OrderedListings(tbl, S) ==
    IF S = {}
    THEN {<<>>}
    ELSE UNION {{<<m>> \o s : s \in OrderedListings(tbl, S \ {m})} :
                m \in {j \in S : \A k \in S : OrderedBefore(tbl, j, k)}}

get_query_set(tbl) == OrderedListings(tbl, DOMAIN tbl)

(***************************************************************************)
(* Operations of the entity layer on Genre, run one at a time.             *)
(***************************************************************************)

Clients == 1..NumClients

\* An instance whose tree fields are not set yet.
NoFields ==
    [parent |-> None, lft |-> None, rght |-> None, tree_id |-> None,
     level |-> None]

\* A client that has issued no operation.
NoReq ==
    [kind |-> "none", arg |-> None, obj |-> NoParent, fields |-> NoFields,
     newpk |-> None]

Init ==
    /\ rows = <<>>
    /\ nextPk = 1
    /\ pc = [c \in Clients |-> "idle"]
    /\ req = [c \in Clients |-> NoReq]
    /\ base = <<>>
    /\ mem = <<>>
    /\ resaves = 0
    /\ failures = 0

\* Genre.objects.create(name=...): pre_save, then INSERT.
CreateRoot ==
    /\ nextPk <= MaxPk
    /\ LET r == pre_save(rows, NoParent)
       IN  rows' = InsertRow(r.tbl, nextPk, r.instance)
    /\ nextPk' = nextPk + 1
    /\ UNCHANGED <<mem, resaves, failures, pc, req, base>>

\* Genre.objects.create(name=..., parent=p) with p as currently persisted:
\* pre_save, then INSERT.
CreateChild(p) ==
    /\ nextPk <= MaxPk
    /\ p \in DOMAIN rows
    /\ LET r == pre_save(rows, Fetch(rows, p))
       IN  rows' = InsertRow(r.tbl, nextPk, r.instance)
    /\ nextPk' = nextPk + 1
    /\ UNCHANGED <<mem, resaves, failures, pc, req, base>>

\* Rows whose parent column references k.
Children(tbl, k) == {j \in DOMAIN tbl : tbl[j].parent = k}

\* delete() of a node without children, as currently persisted: pre_delete,
\* then DELETE.
DeleteLeaf(k) ==
    /\ k \in DOMAIN rows
    /\ Children(rows, k) = {}
    /\ rows' = DeleteRow(pre_delete(rows, Fetch(rows, k)), k)
    /\ UNCHANGED <<mem, resaves, failures, nextPk, pc, req, base>>

Next ==
    \/ CreateRoot
    \/ \E p \in DOMAIN rows : CreateChild(p)
    \/ \E k \in DOMAIN rows : DeleteLeaf(k)

Spec == Init /\ [][Next]_vars

(***************************************************************************)
(* Operations of several clients overlapping in time.  Neither receiver   *)
(* nor its caller takes a lock or opens a transaction, so an operation is  *)
(* the sequence of its statements: the read of the parent (or of the       *)
(* instance to delete, or SELECT MAX), the UPDATE of rght, the UPDATE of   *)
(* lft, and the INSERT or DELETE of the row.  Clients issue operations in  *)
(* rounds: a round starts from a table no operation is working on, each    *)
(* client issues at most one operation in it, and no operation of a round  *)
(* is aimed at a node another operation of the round deletes.              *)
(***************************************************************************)
AllIdle == \A c \in Clients : pc[c] = "idle"

\* The clients with an operation in the current round.
InRound == {c \in Clients : req[c].kind # "none"}

\* Creations issued and not yet inserted.
PendingInserts ==
    {c \in Clients : pc[c] \in {"select_max", "save_rght", "save_lft", "insert"}}

\* Client c issues request r: it joins the current round, or starts one.
Enter(c, r) ==
    /\ pc[c] = "idle"
    /\ IF AllIdle
       THEN /\ base' = rows
            /\ req' = [d \in Clients |-> IF d = c THEN r ELSE NoReq]
       ELSE /\ req[c].kind = "none"
            /\ base' = base
            /\ req' = [req EXCEPT ![c] = r]

\* Genre.objects.create(name=...): the instance is built, save() begins.
BeginCreateRoot(c) ==
    /\ nextPk + Cardinality(PendingInserts) <= MaxPk
    /\ Enter(c, [NoReq EXCEPT !.kind = "root"])
    /\ pc' = [pc EXCEPT ![c] = "select_max"]
    /\ UNCHANGED <<mem, resaves, failures, rows, nextPk>>

\* _pre_save, parent is None: SELECT MAX(tree_id) and the setattr calls.
SelectMax(c) ==
    /\ pc[c] = "select_max"
    /\ req' = [req EXCEPT ![c].fields = root_fields(rows)]
    /\ pc' = [pc EXCEPT ![c] = "insert"]
    /\ UNCHANGED <<mem, resaves, failures, rows, nextPk, base>>

\* Genre.objects.create(name=..., parent=p): p is read from the table, the
\* instance is built, save() begins.
BeginCreateChild(c, p) ==
    /\ nextPk + Cardinality(PendingInserts) <= MaxPk
    /\ p \in DOMAIN rows
    /\ \A d \in InRound \ {c} : ~(req[d].kind = "delete" /\ req[d].arg = p)
    /\ Enter(c, [NoReq EXCEPT !.kind = "child", !.arg = p,
                              !.obj = Fetch(rows, p)])
    /\ pc' = [pc EXCEPT ![c] = "save_rght"]
    /\ UNCHANGED <<mem, resaves, failures, rows, nextPk>>

\* _pre_save: the UPDATE of the right column.
SaveUpdateRght(c) ==
    /\ pc[c] = "save_rght"
    /\ rows' = pre_save_update(rows, "rght", target_right_of(req[c].obj),
                               req[c].obj.tree_id)
    /\ pc' = [pc EXCEPT ![c] = "save_lft"]
    /\ UNCHANGED <<mem, resaves, failures, nextPk, req, base>>

\* _pre_save: the UPDATE of the left column and the setattr calls.
SaveUpdateLft(c) ==
    /\ pc[c] = "save_lft"
    /\ rows' = pre_save_update(rows, "lft", target_right_of(req[c].obj),
                               req[c].obj.tree_id)
    /\ req' = [req EXCEPT ![c].fields = child_fields(req[c].obj)]
    /\ pc' = [pc EXCEPT ![c] = "insert"]
    /\ UNCHANGED <<mem, resaves, failures, nextPk, base>>

\* save() after the pre_save signal: INSERT.
Insert(c) ==
    /\ pc[c] = "insert"
    /\ rows' = InsertRow(rows, nextPk, req[c].fields)
    /\ nextPk' = nextPk + 1
    /\ req' = [req EXCEPT ![c].newpk = nextPk]
    /\ pc' = [pc EXCEPT ![c] = "idle"]
    /\ UNCHANGED <<mem, resaves, failures, base>>

\* delete() of a node without children: the instance is read from the
\* table, delete() begins.
BeginDelete(c, k) ==
    /\ k \in DOMAIN rows
    /\ Children(rows, k) = {}
    /\ \A d \in InRound \ {c} : req[d].arg # k
    /\ Enter(c, [NoReq EXCEPT !.kind = "delete", !.arg = k,
                              !.obj = Fetch(rows, k)])
    /\ pc' = [pc EXCEPT ![c] = "delete_rght"]
    /\ UNCHANGED <<mem, resaves, failures, rows, nextPk>>

\* _pre_delete: the UPDATE of the right column.
DeleteUpdateRght(c) ==
    /\ pc[c] = "delete_rght"
    /\ rows' = pre_delete_update(rows, "rght", span_of(req[c].obj),
                                 req[c].obj.rght, req[c].obj.tree_id)
    /\ pc' = [pc EXCEPT ![c] = "delete_lft"]
    /\ UNCHANGED <<mem, resaves, failures, nextPk, req, base>>

\* _pre_delete: the UPDATE of the left column.
DeleteUpdateLft(c) ==
    /\ pc[c] = "delete_lft"
    /\ rows' = pre_delete_update(rows, "lft", span_of(req[c].obj),
                                 req[c].obj.rght, req[c].obj.tree_id)
    /\ pc' = [pc EXCEPT ![c] = "delete"]
    /\ UNCHANGED <<mem, resaves, failures, nextPk, req, base>>

\* delete() after the pre_delete signal: DELETE.
Delete(c) ==
    /\ pc[c] = "delete"
    /\ rows' = DeleteRow(rows, req[c].arg)
    /\ pc' = [pc EXCEPT ![c] = "idle"]
    /\ UNCHANGED <<mem, resaves, failures, nextPk, req, base>>

NextConcurrent ==
    \/ \E c \in Clients : BeginCreateRoot(c)
    \/ \E c \in Clients : SelectMax(c)
    \/ \E c \in Clients : \E p \in DOMAIN rows : BeginCreateChild(c, p)
    \/ \E c \in Clients : SaveUpdateRght(c)
    \/ \E c \in Clients : SaveUpdateLft(c)
    \/ \E c \in Clients : Insert(c)
    \/ \E c \in Clients : \E k \in DOMAIN rows : BeginDelete(c, k)
    \/ \E c \in Clients : DeleteUpdateRght(c)
    \/ \E c \in Clients : DeleteUpdateLft(c)
    \/ \E c \in Clients : Delete(c)

SpecConcurrent == Init /\ [][NextConcurrent]_vars

(***************************************************************************)
(* Storage errors.  One operation runs at a time; any of its statements    *)
(* (an UPDATE of the receiver, the INSERT or the DELETE) may raise.  The   *)
(* receivers and their callers catch nothing and roll nothing back, and    *)
(* the settings install no transaction middleware, so the exception        *)
(* leaves the statements already executed to the connection: they are      *)
(* discarded where the backend rolls the open transaction back, and they   *)
(* stay where it has none or a later commit on the connection includes     *)
(* them.  The failing statement itself changes nothing.                    *)
(***************************************************************************)

\* The statements of an operation that write to the table.
WritePoints ==
    {"save_rght", "save_lft", "insert", "delete_rght", "delete_lft", "delete"}

\* The statement client c is about to execute raises; what the operation
\* has written so far stays.
StorageErrorKept(c) ==
    /\ pc[c] \in WritePoints
    /\ pc' = [pc EXCEPT ![c] = "idle"]
    /\ req' = [req EXCEPT ![c].kind = "failed"]
    /\ failures < MaxFailures
    /\ failures' = failures + 1
    /\ UNCHANGED <<rows, nextPk, base, mem, resaves>>

\* The statement client c is about to execute raises; what the operation
\* has written so far is rolled back.
StorageErrorRolledBack(c) ==
    /\ pc[c] \in WritePoints
    /\ pc' = [pc EXCEPT ![c] = "idle"]
    /\ req' = [req EXCEPT ![c].kind = "failed"]
    /\ rows' = base
    /\ failures < MaxFailures
    /\ failures' = failures + 1
    /\ UNCHANGED <<nextPk, base, mem, resaves>>

NextFailing ==
    \/ \E c \in Clients : AllIdle /\ BeginCreateRoot(c)
    \/ \E c \in Clients : SelectMax(c)
    \/ \E c \in Clients : \E p \in DOMAIN rows :
        AllIdle /\ BeginCreateChild(c, p)
    \/ \E c \in Clients : SaveUpdateRght(c)
    \/ \E c \in Clients : SaveUpdateLft(c)
    \/ \E c \in Clients : Insert(c)
    \/ \E c \in Clients : \E k \in DOMAIN rows : AllIdle /\ BeginDelete(c, k)
    \/ \E c \in Clients : DeleteUpdateRght(c)
    \/ \E c \in Clients : DeleteUpdateLft(c)
    \/ \E c \in Clients : Delete(c)
    \/ \E c \in Clients : StorageErrorKept(c)
    \/ \E c \in Clients : StorageErrorRolledBack(c)

SpecFailing == Init /\ [][NextFailing]_vars

(***************************************************************************)
(* The tree the parent column describes.                                   *)
(***************************************************************************)

\* The rows reached from k by following parent one or more times.
RECURSIVE ParentChain(_, _, _)
ParentChain(tbl, k, seen) ==
    LET p == tbl[k].parent
    IN  IF p = None \/ p \notin DOMAIN tbl \/ p \in seen
        THEN {}
        ELSE {p} \cup ParentChain(tbl, p, seen \cup {p})

TrueAncestors(tbl, k) == ParentChain(tbl, k, {})

TrueDescendants(tbl, k) == {j \in DOMAIN tbl : k \in TrueAncestors(tbl, j)}

(***************************************************************************)
(* Deleting a node that has descendants.  _pre_delete "updates tree node   *)
(* edge indicators which will be affected by the deletion of the given     *)
(* model instance and any children it may have": it runs for the node,     *)
(* and the rows of the node and of its descendants (the rows the parent    *)
(* foreign key cascades to) are deleted.                                   *)
(***************************************************************************)

\* DELETE of a set of rows.
DeleteRows(tbl, S) == [j \in DOMAIN tbl \ S |-> tbl[j]]

\* delete() of a node with children, as currently persisted: pre_delete for
\* the node, then DELETE of the node and its descendants.
DeleteSubtree(k) ==
    /\ k \in DOMAIN rows
    /\ Children(rows, k) # {}
    /\ rows' = DeleteRows(pre_delete(rows, Fetch(rows, k)),
                          {k} \cup TrueDescendants(rows, k))
    /\ req' = [req EXCEPT ![1] = [NoReq EXCEPT !.kind = "delete", !.arg = k,
                                               !.obj = Fetch(rows, k)]]
    /\ UNCHANGED <<mem, resaves, failures, nextPk, pc, base>>

NextSubtree ==
    \/ CreateRoot
    \/ \E p \in DOMAIN rows : CreateChild(p)
    \/ \E k \in DOMAIN rows : DeleteSubtree(k)

SpecSubtree == Init /\ [][NextSubtree]_vars

(***************************************************************************)
(* Saving a node that is already persisted, its parent set anew.           *)
(***************************************************************************)

\* UPDATE of row k with the instance's fields.
UpdateRow(tbl, k, fields) == [tbl EXCEPT ![k] = fields]

\* g = Genre.objects.get(pk=k); g.parent = np (or None); g.save(): the
\* pre_save signal, then UPDATE of the row.
SaveExisting(k, np) ==
    /\ resaves < MaxResaves
    /\ resaves' = resaves + 1
    /\ k \in DOMAIN rows
    /\ np \in (DOMAIN rows \ {k}) \cup {None}
    /\ LET instance == [Fetch(rows, k) EXCEPT !.parent = np]
           parent == IF np = None THEN NoParent ELSE Fetch(rows, np)
           r == pre_save_receiver(rows, instance, parent)
       IN  rows' = UpdateRow(r.tbl, k, r.instance)
    /\ UNCHANGED <<mem, failures, nextPk, pc, req, base>>

NextResave ==
    \/ CreateRoot
    \/ \E p \in DOMAIN rows : CreateChild(p)
    \/ \E k \in DOMAIN rows : DeleteLeaf(k)
    \/ \E k \in DOMAIN rows : \E np \in DOMAIN rows \cup {None} :
        SaveExisting(k, np)

SpecResave == Init /\ [][NextResave]_vars

(***************************************************************************)
(* Operations on the model instances the application holds.  create()      *)
(* returns the instance it saved, and that object is what a later          *)
(* create(parent=...) or delete() is handed, as in                         *)
(*     platform = Genre.objects.create(name='Platform')                    *)
(*     platform_2d = Genre.objects.create(name='2D Platform',              *)
(*                                        parent=platform)                 *)
(* The receivers read lft, rght, tree_id and level with getattr from that  *)
(* object; the UPDATEs of other operations do not reach it.                *)
(***************************************************************************)

\* The instance create() returns: the fields _pre_save set, and the
\* primary key the INSERT assigned.
Created(k, fields) ==
    [pk |-> k, parent |-> fields.parent, tree_id |-> fields.tree_id,
     level |-> fields.level, lft |-> fields.lft, rght |-> fields.rght]

Hold(held, k, instance) ==
    [j \in DOMAIN held \cup {k} |-> IF j = k THEN instance ELSE held[j]]

\* Genre.objects.get(pk=k): the held instance is replaced by the row as
\* persisted.
Load(k) ==
    /\ k \in DOMAIN rows
    /\ mem' = Hold(mem, k, Fetch(rows, k))
    /\ mem' # mem
    /\ UNCHANGED <<rows, nextPk, pc, req, base, resaves, failures>>

\* r = Genre.objects.create(name=...)
CreateRootHeld ==
    /\ nextPk <= MaxPk
    /\ LET r == pre_save(rows, NoParent)
       IN  /\ rows' = InsertRow(r.tbl, nextPk, r.instance)
           /\ mem' = Hold(mem, nextPk, Created(nextPk, r.instance))
    /\ nextPk' = nextPk + 1
    /\ UNCHANGED <<pc, req, base, resaves, failures>>

\* c = Genre.objects.create(name=..., parent=p) with p a held instance.
CreateChildOfHeld(p) ==
    /\ nextPk <= MaxPk
    /\ p \in DOMAIN mem
    /\ p \in DOMAIN rows
    /\ LET r == pre_save(rows, mem[p])
       IN  /\ rows' = InsertRow(r.tbl, nextPk, r.instance)
           /\ mem' = Hold(mem, nextPk, Created(nextPk, r.instance))
    /\ nextPk' = nextPk + 1
    /\ UNCHANGED <<pc, req, base, resaves, failures>>

\* k.delete() with k a held instance of a node without children.
DeleteHeld(k) ==
    /\ k \in DOMAIN mem
    /\ k \in DOMAIN rows
    /\ Children(rows, k) = {}
    /\ rows' = DeleteRow(pre_delete(rows, mem[k]), k)
    /\ mem' = [j \in DOMAIN mem \ {k} |-> mem[j]]
    /\ UNCHANGED <<nextPk, pc, req, base, resaves, failures>>

NextHeld ==
    \/ CreateRootHeld
    \/ \E p \in DOMAIN mem : CreateChildOfHeld(p)
    \/ \E k \in DOMAIN mem : DeleteHeld(k)
    \/ \E k \in DOMAIN rows : Load(k)

SpecHeld == Init /\ [][NextHeld]_vars

\* Some row has been deleted: fewer rows than primary keys handed out.
SomeDeleted == Cardinality(DOMAIN rows) < nextPk - 1

(***************************************************************************)
(* C1. Containment equals ancestry: for every two persisted nodes A, B of  *)
(* one tree, A.lft < B.lft and A.rght > B.rght exactly when A is reached   *)
(* from B by following parent one or more times.                           *)
(***************************************************************************)
Contains(tbl, a, b) == tbl[a].lft < tbl[b].lft /\ tbl[a].rght > tbl[b].rght

ContainmentIsAncestry(tbl) ==
    \A a, b \in DOMAIN tbl :
        tbl[a].tree_id = tbl[b].tree_id
            => (Contains(tbl, a, b) <=> a \in TrueAncestors(tbl, b))

\* C1: containment equals ancestry in every reachable state.
C1_ContainmentEqualsAncestry == ContainmentIsAncestry(rows)

\* A grandparent, parent and child beside a non-ancestor of the same tree,
\* after a deletion.
C1_Witness ==
    /\ SomeDeleted
    /\ \E a, b, c \in DOMAIN rows :
        /\ rows[b].parent # None /\ rows[rows[b].parent].parent = a
        /\ Contains(rows, a, b)
        /\ rows[c].tree_id = rows[b].tree_id /\ c # b
        /\ c \notin TrueAncestors(rows, b)
        /\ ~Contains(rows, c, b)

(***************************************************************************)
(* C2. Interval validity: every persisted node has lft < rght and          *)
(* rght - lft odd.                                                         *)
(***************************************************************************)
IntervalValid(r) == r.lft < r.rght /\ (r.rght - r.lft) % 2 = 1

\* C2: every persisted node has a valid interval in every reachable state.
C2_IntervalValidity == \A k \in DOMAIN rows : IntervalValid(rows[k])

\* A node spanning two descendants and a leaf, after a deletion.
C2_Witness ==
    /\ SomeDeleted
    /\ \E k, j \in DOMAIN rows :
        /\ rows[k].rght - rows[k].lft = 5
        /\ rows[j].rght - rows[j].lft = 1

(***************************************************************************)
(* C3. Count correctness: get_descendant_count(node) is the number of      *)
(* rows get_descendants(node) returns.                                     *)
(***************************************************************************)
\* C3: the derived count equals the size of the descendants query, for
\* every persisted node in every reachable state.
C3_CountCorrectness ==
    \A k \in DOMAIN rows :
        get_descendant_count(Fetch(rows, k))
            = Cardinality(get_descendants(rows, Fetch(rows, k), FALSE))

\* Nodes with 0, 1 and 3 descendants in one table, after a deletion.
C3_Witness ==
    /\ SomeDeleted
    /\ \E a, b, c \in DOMAIN rows :
        /\ get_descendant_count(Fetch(rows, a)) = 3
        /\ get_descendant_count(Fetch(rows, b)) = 1
        /\ get_descendant_count(Fetch(rows, c)) = 0

(***************************************************************************)
(* C4. Preorder: the manager's listing, restricted to one tree_id, is a    *)
(* depth-first parent-before-children traversal of that tree.              *)
(***************************************************************************)
TreeIds(tbl) == {tbl[k].tree_id : k \in DOMAIN tbl}

RestrictTo(tbl, s, t) ==
    LET InTree(k) == tbl[k].tree_id = t IN SelectSeq(s, InTree)

\* s lists each node immediately followed by all of its descendants (which
\* puts every node after its parent and before every later non-descendant).
IsPreorder(tbl, s) ==
    \A i \in 1..Len(s) :
        LET D == {j \in TrueDescendants(tbl, s[i]) :
                    tbl[j].tree_id = tbl[s[i]].tree_id}
        IN  /\ i + Cardinality(D) <= Len(s)
            /\ {s[j] : j \in (i + 1)..(i + Cardinality(D))} = D

\* C4: every listing the manager can return is, tree by tree, a
\* depth-first parent-before-children traversal.
C4_Preorder ==
    \A s \in get_query_set(rows) :
        \A t \in TreeIds(rows) : IsPreorder(rows, RestrictTo(rows, s, t))

\* Two trees, one with a grandchild listed before a later child of the root.
C4_Witness ==
    /\ Cardinality(TreeIds(rows)) >= 2
    /\ \E a, b, c, d \in DOMAIN rows :
        /\ rows[a].parent = None
        /\ rows[b].parent = a /\ rows[c].parent = b /\ rows[d].parent = a
        /\ rows[c].lft < rows[d].lft
        /\ c > d

(***************************************************************************)
(* Steps, read off two successive tables: an INSERT adds one primary key,  *)
(* a DELETE removes one.                                                   *)
(***************************************************************************)
Inserted == DOMAIN rows' \ DOMAIN rows

Deleted == DOMAIN rows \ DOMAIN rows'

SameIndices(k) == rows'[k].lft = rows[k].lft /\ rows'[k].rght = rows[k].rght

(***************************************************************************)
(* C5. A new child is appended as its parent's last child.                 *)
(***************************************************************************)
AppendedAsLastChild ==
    \A n \in Inserted :
        rows'[n].parent # None =>
            LET p == rows'[n].parent
            IN  /\ rows'[n].lft = rows[p].rght
                /\ rows'[n].rght = rows'[n].lft + 1
                /\ \A d \in TrueDescendants(rows, p) :
                    /\ rows'[n].lft > rows[d].rght
                    /\ SameIndices(d)

\* The table after creating root R, then C1 under R, then C2 under R.
AfterRC1C2 ==
    /\ nextPk = 4
    /\ DOMAIN rows = {1, 2, 3}
    /\ rows[1].parent = None /\ rows[2].parent = 1 /\ rows[3].parent = 1

ScenarioRC1C2 ==
    AfterRC1C2 =>
        /\ <<rows[1].tree_id, rows[1].lft, rows[1].rght>> = <<1, 1, 6>>
        /\ <<rows[2].tree_id, rows[2].lft, rows[2].rght>> = <<1, 2, 3>>
        /\ <<rows[3].tree_id, rows[3].lft, rows[3].rght>> = <<1, 4, 5>>

\* C5: a node created under P gets lft = P's rght before the insert and
\* rght = lft + 1, lies to the right of every node that already was a
\* descendant of P, and leaves those descendants' lft and rght as they
\* were; R, C1 under R, C2 under R gives (1,1,6), (1,2,3), (1,4,5).
C5_AppendedAsLastChild == []ScenarioRC1C2 /\ [][AppendedAsLastChild]_vars

\* A third child appended under a parent whose first child has a child.
C5_Witness ==
    \E p, a, b, n \in DOMAIN rows :
        /\ rows[a].parent = p /\ rows[b].parent = a /\ rows[n].parent = p
        /\ n > b /\ b > a
        /\ rows[n].lft > rows[a].rght
        /\ rows[n].rght = rows[p].rght - 1

(***************************************************************************)
(* C6. Effect of an insert on the existing nodes.                          *)
(***************************************************************************)
\* The claim as stated: strict ancestors of the new node get rght + 2,
\* every other node keeps lft and rght.
OnlyAncestorsChange ==
    \A n \in Inserted :
        rows'[n].parent # None =>
            \A k \in DOMAIN rows :
                IF k \in TrueAncestors(rows', n)
                THEN rows'[k].rght = rows[k].rght + 2
                ELSE SameIndices(k)

\* C6 as stated: an insert changes no index of a non-ancestor.
C6_OnlyAncestorsChange == [][OnlyAncestorsChange]_vars

\* Strict ancestors get rght + 2 and keep lft; the nodes of the tree that
\* start after the parent's old rght get lft + 2 and rght + 2; every other
\* node keeps lft and rght.
AncestorsGrowLaterNodesShift ==
    \A n \in Inserted :
        rows'[n].parent # None =>
            LET p == rows'[n].parent
            IN  \A k \in DOMAIN rows :
                    IF k \in TrueAncestors(rows', n)
                    THEN /\ rows'[k].rght = rows[k].rght + 2
                         /\ rows'[k].lft = rows[k].lft
                    ELSE IF /\ rows[k].tree_id = rows[p].tree_id
                            /\ rows[k].lft > rows[p].rght
                         THEN /\ rows'[k].lft = rows[k].lft + 2
                              /\ rows'[k].rght = rows[k].rght + 2
                         ELSE SameIndices(k)

\* C6, amended: an insert adds 2 to the rght of every strict ancestor of
\* the new node, adds 2 to lft and rght of every node of the tree whose
\* lft was greater than the parent's rght, and changes no other index.
C6_AncestorsGrowLaterNodesShift == [][AncestorsGrowLaterNodesShift]_vars

\* A node created under a parent while an older node of the tree, not an
\* ancestor, came after that parent: the older node was moved by 2.
C6_Witness ==
    \E n, k \in DOMAIN rows :
        /\ rows[n].parent # None
        /\ k < n
        /\ rows[k].tree_id = rows[n].tree_id
        /\ k \notin TrueAncestors(rows, n)
        /\ rows[k].lft > rows[n].rght
        /\ TrueAncestors(rows, n) # {rows[n].parent}

(***************************************************************************)
(* C7. Effect of a leaf delete.                                            *)
(***************************************************************************)
ShiftedDown(old, bound, by) == IF old > bound THEN old - by ELSE old

TreeValid(tbl, t) ==
    /\ \A k \in DOMAIN tbl : tbl[k].tree_id = t => IntervalValid(tbl[k])
    /\ \A a, b \in DOMAIN tbl :
        tbl[a].tree_id = t /\ tbl[b].tree_id = t
            => (Contains(tbl, a, b) <=> a \in TrueAncestors(tbl, b))

LeafDeleteEffect ==
    \A d \in Deleted :
        rows[d].rght = rows[d].lft + 1 =>
            /\ \A k \in DOMAIN rows' :
                IF rows[k].tree_id = rows[d].tree_id
                THEN /\ rows'[k].lft = ShiftedDown(rows[k].lft, rows[d].rght, 2)
                     /\ rows'[k].rght = ShiftedDown(rows[k].rght, rows[d].rght, 2)
                ELSE SameIndices(k)
            /\ TreeValid(rows', rows[d].tree_id)

\* Deleting C1 from R (1,1,6), C1 (1,2,3), C2 (1,4,5).
ScenarioDeleteC1 ==
    (AfterRC1C2 /\ Deleted = {2}) =>
        /\ <<rows'[1].tree_id, rows'[1].lft, rows'[1].rght>> = <<1, 1, 4>>
        /\ <<rows'[3].tree_id, rows'[3].lft, rows'[3].rght>> = <<1, 2, 3>>

\* C7: deleting a node with rght = lft + 1 subtracts 2 from every lft and
\* rght of its tree greater than its rght, changes no other index, and the
\* tree's remaining nodes keep interval validity and containment equals
\* ancestry; deleting C1 of the scenario gives R (1,1,4), C2 (1,2,3).
C7_LeafDeleteEffect == [][LeafDeleteEffect /\ ScenarioDeleteC1]_vars

\* The scenario's table after C1 is deleted.
C7_Witness ==
    /\ nextPk = 4
    /\ DOMAIN rows = {1, 3}
    /\ rows[1].parent = None /\ rows[3].parent = 1
    /\ <<rows[1].lft, rows[1].rght>> = <<1, 4>>
    /\ <<rows[3].lft, rows[3].rght>> = <<2, 3>>

(***************************************************************************)
(* C8. Tree isolation.                                                     *)
(***************************************************************************)
OtherTreesUntouched ==
    /\ \A n \in Inserted :
        \A k \in DOMAIN rows :
            (rows'[n].parent = None \/ rows[k].tree_id # rows'[n].tree_id)
                => rows'[k] = rows[k]
    /\ \A d \in Deleted :
        \A k \in DOMAIN rows' :
            rows[k].tree_id # rows[d].tree_id => rows'[k] = rows[k]

\* C8: a create under a parent of tree t, or a delete of a node of tree t,
\* leaves every row of another tree as it was; creating a root leaves
\* every existing row as it was.
C8_TreeIsolation == [][OtherTreesUntouched]_vars

\* A child added to, and a node deleted from, the first tree after a
\* second tree with a child of its own was there.
C8_Witness ==
    /\ SomeDeleted
    /\ \E r1, r2, c1, c2 \in DOMAIN rows :
        /\ rows[r1].parent = None /\ rows[r2].parent = None
        /\ rows[r1].tree_id < rows[r2].tree_id
        /\ rows[c1].parent = r1 /\ rows[c2].parent = r2
        /\ c1 > c2

(***************************************************************************)
(* C9. Root allocation.                                                    *)
(***************************************************************************)
Roots(tbl) == {k \in DOMAIN tbl : tbl[k].parent = None}

RootAllocated ==
    \A n \in Inserted :
        rows'[n].parent = None =>
            /\ rows'[n].lft = 1 /\ rows'[n].rght = 2 /\ rows'[n].level = 0
            /\ rows'[n].tree_id =
                1 + (IF DOMAIN rows = {} THEN 0 ELSE Max(TreeIds(rows)))
            /\ rows'[n].tree_id \notin TreeIds(rows)

RootTreeIdsDistinct ==
    \A a, b \in Roots(rows) : a # b => rows[a].tree_id # rows[b].tree_id

\* C9: a node created without a parent gets lft 1, rght 2, level 0 and
\* tree_id 1 + the largest persisted tree_id (0 on an empty table), a
\* tree_id no persisted node has; no two persisted roots share a tree_id.
C9_RootAllocation == []RootTreeIdsDistinct /\ [][RootAllocated]_vars

\* A root created after the root with the largest tree_id was deleted,
\* beside an older tree with a child.
C9_Witness ==
    /\ SomeDeleted
    /\ \E r1, r2, c \in DOMAIN rows :
        /\ rows[r1].parent = None /\ rows[r2].parent = None
        /\ rows[c].parent = r1
        /\ rows[r2].tree_id = rows[r1].tree_id + 1
        /\ r2 > c + 1

(***************************************************************************)
(* C10. Atomic tree mutation: overlapping operations leave the table one   *)
(* of their serial orders leaves.                                          *)
(***************************************************************************)
\* One operation run alone against tbl, from its read to its INSERT or
\* DELETE, with the primary key the INSERT was given.
RunAlone(tbl, r) ==
    IF r.kind = "delete"
    THEN DeleteRow(pre_delete(tbl, Fetch(tbl, r.arg)), r.arg)
    ELSE LET s == pre_save(tbl, IF r.kind = "root" THEN NoParent
                                ELSE Fetch(tbl, r.arg))
         IN  InsertRow(s.tbl, r.newpk, s.instance)

\* The tables the operations of the clients in S leave when run one after
\* another from tbl, in every order.
RECURSIVE SerialResults(_, _)
SerialResults(tbl, S) ==
    IF S = {}
    THEN {tbl}
    ELSE UNION {SerialResults(RunAlone(tbl, req[c]), S \ {c}) : c \in S}

\* C10: once the operations of a round have all completed, the table is
\* the one some serial order of them leaves: each hook ran as one atomic
\* unit.
C10_SerialEquivalence ==
    AllIdle => rows \in SerialResults(base, InRound)

(***************************************************************************)
(* C15. Dense numbering: the 2n values of lft and rght in a tree of n      *)
(* persisted nodes are pairwise distinct and are exactly 1..2n, the root   *)
(* having lft = 1 and rght = 2n.                                           *)
(***************************************************************************)
TreeNodes(tbl, t) == {k \in DOMAIN tbl : tbl[k].tree_id = t}

EdgeValues(tbl, t) ==
    {tbl[k].lft : k \in TreeNodes(tbl, t)}
        \cup {tbl[k].rght : k \in TreeNodes(tbl, t)}

DenselyNumbered(tbl, t) ==
    LET n == Cardinality(TreeNodes(tbl, t))
    IN  /\ EdgeValues(tbl, t) = 1..(2 * n)
        /\ \A k \in TreeNodes(tbl, t) :
            tbl[k].parent = None => tbl[k].lft = 1 /\ tbl[k].rght = 2 * n

\* C15: in every state reached by creations and leaf deletions, each
\* tree's lft and rght values are exactly 1..2n without repetition, and its
\* root spans 1..2n.
C15_DenseNumbering == \A t \in TreeIds(rows) : DenselyNumbered(rows, t)

\* A tree of three nodes numbered 1..6 beside another tree, after a
\* deletion.
C15_Witness ==
    /\ SomeDeleted
    /\ Cardinality(TreeIds(rows)) = 2
    /\ \E t \in TreeIds(rows) :
        /\ Cardinality(TreeNodes(rows, t)) = 3
        /\ \E k \in TreeNodes(rows, t) : rows[k].rght = 6

(***************************************************************************)
(* C13. Subtree delete keeps integrity.                                    *)
(***************************************************************************)
\* The deleted node the other deleted rows descend from.
DeletedTops == {d \in Deleted : rows[d].parent \notin Deleted}

SubtreeDeleteEffect ==
    Cardinality(Deleted) >= 2 =>
        \A d \in DeletedTops :
            LET span == rows[d].rght - rows[d].lft + 1
            IN  /\ Deleted = {d} \cup TrueDescendants(rows, d)
                /\ \A k \in DOMAIN rows' :
                    IF rows[k].tree_id = rows[d].tree_id
                    THEN /\ rows'[k].lft
                              = ShiftedDown(rows[k].lft, rows[d].rght, span)
                         /\ rows'[k].rght
                              = ShiftedDown(rows[k].rght, rows[d].rght, span)
                    ELSE SameIndices(k)
                /\ TreeValid(rows', rows[d].tree_id)

\* C13: when a node with descendants is deleted by one run of the
\* pre-delete hook and the removal of its and its descendants' rows, every
\* remaining lft and rght of the tree greater than the node's rght drops by
\* span = rght - lft + 1, nothing else changes, and the remaining nodes
\* keep interval validity and containment equals ancestry.
C13_SubtreeDeleteEffect == [][SubtreeDeleteEffect]_vars

\* A node with one descendant (span 4) was deleted, the only deletion so
\* far, while an older node of the tree came after it.
C13_Witness ==
    /\ req[1].kind = "delete"
    /\ span_of(req[1].obj) = 4
    /\ Cardinality(DOMAIN rows) = nextPk - 3
    /\ \E k \in DOMAIN rows :
        /\ k < req[1].arg
        /\ rows[k].tree_id = req[1].obj.tree_id
        /\ rows[k].parent # None
        /\ rows[k].lft >= req[1].obj.lft

(***************************************************************************)
(* C14. Saving an already-persisted node is index-neutral.                 *)
(***************************************************************************)
SameTreeFields(k) ==
    /\ SameIndices(k)
    /\ rows'[k].tree_id = rows[k].tree_id
    /\ rows'[k].level = rows[k].level

\* A step that inserts no row and deletes none changes no tree field.
OnlyCreateAndDeleteChangeIndices ==
    (Inserted = {} /\ Deleted = {}) =>
        \A k \in DOMAIN rows : SameTreeFields(k)

\* C14: a save of a node that has a primary key, its parent changed or
\* not, changes no node's lft, rght, tree_id or level; these change only
\* in steps that create or delete a row.
C14_ResaveIndexNeutral == [][OnlyCreateAndDeleteChangeIndices]_vars

\* A node saved under a new parent: its parent's interval does not contain
\* it and its level is not its parent's plus one.
C14_Witness ==
    \E k \in DOMAIN rows :
        /\ rows[k].parent \in DOMAIN rows
        /\ ~Contains(rows, rows[k].parent, k)
        /\ rows[k].level # rows[rows[k].parent].level + 1

(***************************************************************************)
(* C12. Hooks act on current persisted indices.                            *)
(***************************************************************************)
\* C12: whatever instances the creates and deletes are handed, loaded
\* before or after other operations changed their rows, every tree keeps
\* interval validity and containment equals ancestry.
C12_ValidWithHeldInstances ==
    \A t \in TreeIds(rows) : TreeValid(rows, t)

(***************************************************************************)
(* C11. No partial apply on storage failure.                               *)
(***************************************************************************)
\* C11: after an operation failed on a storage error, the table holds the
\* rows it held before the operation started, each with the lft and rght
\* it had then.
C11_NoPartialApply ==
    \A c \in Clients :
        req[c].kind = "failed" =>
            /\ DOMAIN rows = DOMAIN base
            /\ \A k \in DOMAIN base :
                /\ rows[k].lft = base[k].lft
                /\ rows[k].rght = base[k].rght

====
